---- MODULE Spec2Model ----
(***************************************************************************)
(* Model of rename_field_plugin_pcb.py: the action plugin RenameFieldPlugin *)
(* (Run) and the board pass _rename_fields_on_board.                        *)
(*                                                                          *)
(* A name is a sequence of one-character strings, so that str.strip() and   *)
(* str.lower() are computed and not assumed.  A footprint is a record       *)
(*   props  : the property mapping (a function from keys to values),        *)
(*   fields : the field list (a sequence of [name, text] records).          *)
(* The host calls (GetProperties, SetProperty, ClearProperty, GetFields,    *)
(* GetName, GetText, SetName, Duplicate, Add) are not part of the source:   *)
(* each call made while a footprint is processed draws its outcome from     *)
(*   "ok"   the call works,                                                 *)
(*   "attr" the call raises AttributeError (the build lacks it),            *)
(*   "err"  the call raises any other exception,                            *)
(* and the mapping returned by GetProperties is either a live view of the   *)
(* footprint's properties or a snapshot of them.                            *)
(* A footprint without a property mapping (GetProperties absent) is one     *)
(* whose props is empty, and one without a field list has no fields.  Every *)
(* field has a name and a text (GetName and GetText exist and may raise).   *)
(* The code never inspects a value, so stored values are pairwise distinct: *)
(* a value found under another name is then known to have been copied.      *)
(***************************************************************************)
EXTENDS Naturals, Sequences, FiniteSets

\* ------------------------------------------------------------------ bounds
MaxFp == 2

MaxFields == 1

\* ------------------------------------------------------------------ strings
SP == " "

EmptyStr == << >>

IsSpace(c) == c = SP

LowerChar(c) ==
    CASE c = "P" -> "p"
      [] c = "N" -> "n"
      [] c = "M" -> "m"
      [] OTHER   -> c

RECURSIVE LStrip(_)
LStrip(s) ==
    IF s = << >> THEN << >>
    ELSE IF IsSpace(Head(s)) THEN LStrip(Tail(s)) ELSE s

RECURSIVE RStrip(_)
RStrip(s) ==
    IF s = << >> THEN << >>
    ELSE IF IsSpace(s[Len(s)]) THEN RStrip(SubSeq(s, 1, Len(s) - 1)) ELSE s

\* str.strip()
Strip(s) == RStrip(LStrip(s))

\* str.lower()
Lower(s) == [j \in 1..Len(s) |-> LowerChar(s[j])]

\* (x or "").strip().lower()
Norm(s) == Lower(Strip(s))

\* ------------------------------------------------------------------ inputs
\* Names stored on the board, as keys of the property mapping and as field names.
StoredNames == { <<"P", "n", SP>>, <<"M">> }

\* Texts the user may leave in the two text controls of the dialog.
DialogOldTexts == { <<SP>>, <<SP, "p", "N">> }

DialogNewTexts == { << >>, <<"P", "N">>, <<"M", SP>> }

PropValue(k) == IF k = <<"M">> THEN "OLDMPN" ELSE "ABC123"

TextAt(j) == <<"XYZ999", "XYZ998", "XYZ997", "XYZ996">>[j]

PropMaps == { [k \in S |-> PropValue(k)] : S \in SUBSET StoredNames }

FieldLists ==
    UNION { { [j \in 1..n |-> [name |-> f[j], text |-> TextAt(j)]] :
                f \in [1..n -> StoredNames] } : n \in 0..MaxFields }

Footprints == { [props |-> p, fields |-> f] : p \in PropMaps, f \in FieldLists }

Boards == UNION { [1..n -> Footprints] : n \in 0..MaxFp }

\* ------------------------------------------------------------------ host calls
Put(props, k, v) == [x \in (DOMAIN props) \cup {k} |-> IF x = k THEN v ELSE props[x]]

Del(props, k) == [x \in (DOMAIN props) \ {k} |-> props[x]]

\* fp.SetProperty(k, v), when it works
SetProperty(fp, k, v) == [fp EXCEPT !.props = Put(@, k, v)]

\* fp.ClearProperty(k), when it works
ClearProperty(fp, k) == [fp EXCEPT !.props = Del(@, k)]

\* fld.SetName(n) on the j-th field, when it works
SetName(fp, j, n) == [fp EXCEPT !.fields[j].name = n]

\* Variant: the duplicate is added under the name it was copied with.
AddDuplicateUnrenamed(fp, j, n) ==
    [fp EXCEPT !.fields = Append(@, [name |-> fp.fields[j].name, text |-> fp.fields[j].text])]

\* fld2 = fld.Duplicate(); fld2.SetName(n); fp.Add(fld2), when all three work
AddDuplicate(fp, j, n) ==
    [fp EXCEPT !.fields = Append(@, [name |-> n, text |-> fp.fields[j].text])]

\* ------------------------------------------------------------------ state
VARIABLES
    board,          \* pcbnew.GetBoard(): the footprints, mutated in place
    board0,         \* the board as it was when Run started
    pc,             \* where Run is
    dlg,            \* what ShowModal returned: "none", "ok", "cancel"
    old_field,      \* dlg.get_values()[0]
    new_field,      \* dlg.get_values()[1]
    copy_instead,   \* dlg.get_values()[2]
    i,              \* position of the for loop over board.GetFootprints()
    count_found,
    count_modified,
    boxes,          \* the wx.MessageBox calls made so far, in order
    refreshed       \* pcbnew.Refresh() was called

vars == << board, board0, pc, dlg, old_field, new_field, copy_instead, i,
           count_found, count_modified, boxes, refreshed >>

\* ------------------------------------------------------------------ _rename_fields_on_board
\* What processing one footprint yields: kind is "continue" (the loop goes on
\* with the next footprint), "next" (case A hands over to case B) or "raise"
\* (an exception leaves the function); found and modified are the increments.
Res(kind, fp, f, m) == [kind |-> kind, fp |-> fp, found |-> f, modified |-> m]

\* Variant: the key is lower-cased but not stripped.
KeyMatchesNoStrip(k, old_l) == Lower(k) = old_l

\* (k or "").strip().lower() == old_l
KeyMatches(k, old_l) == Norm(k) = old_l

MatchKeys(props, old_l) == { k \in DOMAIN props : KeyMatches(k, old_l) }

\* try: fp.SetProperty(new_field, value) / except AttributeError: props[new_field] = value
\* live: the mapping GetProperties returned is a view of the footprint's properties.
CaseAWrite(fp, new, value, live) ==
    { [raise |-> FALSE, fp |-> SetProperty(fp, new, value)] }                  \* "ok"
    \cup { [raise |-> FALSE,
            fp |-> IF live THEN SetProperty(fp, new, value) ELSE fp] }         \* "attr"
    \cup { [raise |-> TRUE, fp |-> fp] }                                       \* "err"

\* if not copy_instead: try: fp.ClearProperty(match_key) / except Exception: del props[match_key]
CaseAClear(fp, mk, copy, live) ==
    IF copy THEN { fp }
    ELSE { ClearProperty(fp, mk) }                                             \* "ok"
         \cup { IF live THEN ClearProperty(fp, mk) ELSE fp }                   \* "attr", "err"

CaseAMatch(fp, mk, new, copy, live) ==
    UNION { IF w.raise
            THEN { Res("raise", fp, 1, 0) }
            ELSE { Res("continue", c, 1, 1) : c \in CaseAClear(w.fp, mk, copy, live) }
          : w \in CaseAWrite(fp, new, fp.props[mk], live) }

\* CASE A: property dictionary.  GetProperties raises AttributeError only on a
\* footprint that has no property mapping; the order in which the keys of the
\* mapping are scanned is the host's, so any matching key may be the first.
CaseA(fp, old_l, new, copy) ==
    { Res("raise", fp, 0, 0) }                                                 \* "err"
    \cup (IF DOMAIN fp.props = {} THEN { Res("next", fp, 0, 0) } ELSE {})      \* "attr"
    \cup (IF MatchKeys(fp.props, old_l) = {}                                   \* "ok"
          THEN { Res("next", fp, 0, 0) }
          ELSE UNION { CaseAMatch(fp, mk, new, copy, live) :
                         mk \in MatchKeys(fp.props, old_l), live \in BOOLEAN })

\* The first field whose name matches, 0 when there is none.
FirstMatch(fields, old_l) ==
    IF \E j \in 1..Len(fields) : KeyMatches(fields[j].name, old_l)
    THEN CHOOSE j \in 1..Len(fields) :
            /\ KeyMatches(fields[j].name, old_l)
            /\ \A h \in 1..(j - 1) : ~KeyMatches(fields[h].name, old_l)
    ELSE 0

\* Variant: the text is never read, the default "" is used.
CaseBValueDefault(fld) == ""

\* value = (getattr(fld, "GetText", lambda: "")() or "")
CaseBValue(fld) == fld.text

\* if copy_instead: SetProperty, else Duplicate/SetName/Add, else nothing
CaseBCopy(fp, j, new, value) ==
    { SetProperty(fp, new, value), AddDuplicate(fp, j, new), fp }

\* else: fld.SetName, else SetProperty, else nothing
CaseBRename(fp, j, new, value) ==
    { SetName(fp, j, new), SetProperty(fp, new, value), fp }

\* Variant: count_modified is incremented only when the footprint changed.
CaseBDoneIfChanged(fp0, fp1) == Res("continue", fp1, 1, IF fp0 = fp1 THEN 0 ELSE 1)

\* count_modified += 1; done_here = True; break
CaseBDone(fp0, fp1) == Res("continue", fp1, 1, 1)

\* Variant: count_found is incremented before the name is compared.
CaseBNoMatchCounted(fp) == Res("continue", fp, Len(fp.fields), 0)

\* the for loop ended without a match
CaseBNoMatch(fp) == Res("continue", fp, 0, 0)

\* CASE B: Fields.  GetFields raises AttributeError only on a footprint that has
\* no field list; GetName is called on every field up to the first match and
\* GetText on the match, and either may raise.
CaseB(fp, old_l, new, copy) ==
    LET j == FirstMatch(fp.fields, old_l) IN
    { Res("raise", fp, 0, 0) }                                                 \* GetFields "err"
    \cup (IF fp.fields # << >> THEN { Res("raise", fp, 0, 0) } ELSE {})        \* GetName "err"
    \cup (IF j = 0
          THEN { CaseBNoMatch(fp) }
          ELSE { Res("raise", fp, 1, 0) }                                      \* GetText "err"
               \cup { CaseBDone(fp, f) :
                        f \in IF copy
                              THEN CaseBCopy(fp, j, new, CaseBValue(fp.fields[j]))
                              ELSE CaseBRename(fp, j, new, CaseBValue(fp.fields[j])) })

\* Variant: case A does not end with continue, case B runs on its result.
FootprintStepNoContinue(fp, old_l, new, copy) ==
    LET A == CaseA(fp, old_l, new, copy) IN
    { r \in A : r.kind = "raise" }
    \cup UNION { { Res(b.kind, b.fp, r.found + b.found, r.modified + b.modified) :
                     b \in CaseB(r.fp, old_l, new, copy) }
                 : r \in { a \in A : a.kind # "raise" } }

\* The body of the for loop: case A, and case B unless case A ended with continue.
FootprintStep(fp, old_l, new, copy) ==
    LET A == CaseA(fp, old_l, new, copy) IN
    { r \in A : r.kind # "next" }
    \cup (IF \E r \in A : r.kind = "next" THEN CaseB(fp, old_l, new, copy) ELSE {})

\* ------------------------------------------------------------------ Run
\* if not old_field or not new_field
NamesEmpty(o, n) == o = EmptyStr \/ n = EmptyStr

\* Variant: the names are compared without lower().
NamesIdenticalCaseSensitive(o, n) == Strip(o) = Strip(n)

\* old_field.strip().lower() == new_field.strip().lower()
NamesIdentical(o, n) == Lower(Strip(o)) = Lower(Strip(n))

Init ==
    /\ board \in Boards
    /\ board0 = board
    /\ pc = "dialog"
    /\ dlg = "none"
    /\ old_field = EmptyStr
    /\ new_field = EmptyStr
    /\ copy_instead = FALSE
    /\ i = 0
    /\ count_found = 0
    /\ count_modified = 0
    /\ boxes = << >>
    /\ refreshed = FALSE

\* dlg.ShowModal() != wx.ID_OK: dlg.Destroy(); return
ShowModalCancel ==
    /\ pc = "dialog"
    /\ pc' = "cancelled"
    /\ dlg' = "cancel"
    /\ UNCHANGED << board, board0, old_field, new_field, copy_instead, i,
                    count_found, count_modified, boxes, refreshed >>

\* dlg.ShowModal() == wx.ID_OK; old_field, new_field, copy_instead = dlg.get_values()
ShowModalOK ==
    /\ pc = "dialog"
    /\ \E o \in DialogOldTexts, n \in DialogNewTexts, c \in BOOLEAN :
          /\ old_field' = Strip(o)
          /\ new_field' = Strip(n)
          /\ copy_instead' = c
    /\ pc' = "validate"
    /\ dlg' = "ok"
    /\ UNCHANGED << board, board0, i, count_found, count_modified, boxes, refreshed >>

\* Variant: the warning is shown but Run does not return.
WarnEmptyNoReturn ==
    /\ pc = "validate"
    /\ NamesEmpty(old_field, new_field)
    /\ boxes' = Append(boxes, "warning")
    /\ pc' = "loop"
    /\ i' = 1
    /\ UNCHANGED << board, board0, dlg, old_field, new_field, copy_instead,
                    count_found, count_modified, refreshed >>

\* wx.MessageBox("Please fill both field names."); return
WarnEmpty ==
    /\ pc = "validate"
    /\ NamesEmpty(old_field, new_field)
    /\ boxes' = Append(boxes, "warning")
    /\ pc' = "warned"
    /\ UNCHANGED << board, board0, dlg, old_field, new_field, copy_instead, i,
                    count_found, count_modified, refreshed >>

\* wx.MessageBox("Old and new field names are identical."); return
WarnIdentical ==
    /\ pc = "validate"
    /\ ~NamesEmpty(old_field, new_field)
    /\ NamesIdentical(old_field, new_field)
    /\ boxes' = Append(boxes, "warning")
    /\ pc' = "warned"
    /\ UNCHANGED << board, board0, dlg, old_field, new_field, copy_instead, i,
                    count_found, count_modified, refreshed >>

\* the call of _rename_fields_on_board, up to the for loop
CallRename ==
    /\ pc = "validate"
    /\ ~NamesEmpty(old_field, new_field)
    /\ ~NamesIdentical(old_field, new_field)
    /\ pc' = "loop"
    /\ i' = 1
    /\ count_found' = 0
    /\ count_modified' = 0
    /\ UNCHANGED << board, board0, dlg, old_field, new_field, copy_instead,
                    boxes, refreshed >>

\* one iteration of: for fp in board.GetFootprints()
ProcessFootprint ==
    /\ pc = "loop"
    /\ i <= Len(board)
    /\ \E r \in FootprintStep(board[i], Norm(old_field), new_field, copy_instead) :
          /\ board' = [board EXCEPT ![i] = r.fp]
          /\ count_found' = count_found + r.found
          /\ count_modified' = count_modified + r.modified
          /\ pc' = IF r.kind = "raise" THEN "raised" ELSE "loop"
          /\ i' = IF r.kind = "raise" THEN i ELSE i + 1
    /\ UNCHANGED << board0, dlg, old_field, new_field, copy_instead, boxes, refreshed >>

\* pcbnew.Refresh(); return count_modified, count_found; then the summary box of Run
ReturnAndSummary ==
    /\ pc = "loop"
    /\ i > Len(board)
    /\ refreshed' = TRUE
    /\ boxes' = Append(boxes, "summary")
    /\ pc' = "done"
    /\ UNCHANGED << board, board0, dlg, old_field, new_field, copy_instead, i,
                    count_found, count_modified >>

Next ==
    \/ ShowModalCancel
    \/ ShowModalOK
    \/ WarnEmpty
    \/ WarnIdentical
    \/ CallRename
    \/ ProcessFootprint
    \/ ReturnAndSummary

Spec == Init /\ [][Next]_vars

\* ------------------------------------------------------------------ properties
\* Every name that can occur: on the board, or typed in the dialog.
AllNames == StoredNames \cup { Strip(t) : t \in DialogOldTexts \cup DialogNewTexts }

\* Each name trimmed and case-folded.
Fold == [n \in AllNames |-> Lower(Strip(n))]

\* Equality under trim + case-fold, as the specification words it.
Matches(name, old) == Fold[name] = Fold[old]

PropMatchKeys(fp) == { k \in DOMAIN fp.props : Matches(k, old_field) }

HasPropMatch(fp) == PropMatchKeys(fp) # {}

FieldMatchIdx(fp) == { j \in 1..Len(fp.fields) : Matches(fp.fields[j].name, old_field) }

HasFieldMatch(fp) == FieldMatchIdx(fp) # {}

FirstFieldMatch(fp) == CHOOSE j \in FieldMatchIdx(fp) : \A h \in FieldMatchIdx(fp) : j <= h

Comps == 1..Len(board0)

\* Footprints with a field-list match and no property-mapping match.
FieldOnly == { c \in Comps : HasFieldMatch(board0[c]) /\ ~HasPropMatch(board0[c]) }

\* The matched field carries new_name with its original text.
RenamedInPlace(c) ==
    LET j == FirstFieldMatch(board0[c]) IN
    /\ Len(board[c].fields) = Len(board0[c].fields)
    /\ board[c].fields[j].name = new_field
    /\ ~Matches(board[c].fields[j].name, old_field)
    /\ board[c].fields[j].text = board0[c].fields[j].text

\* The matched field is as it was.
FieldKept(c) ==
    LET j == FirstFieldMatch(board0[c]) IN
    /\ Len(board[c].fields) >= j
    /\ board[c].fields[j] = board0[c].fields[j]

\* A property new_name holds the text of the matched field.
NewProperty(c) ==
    LET j == FirstFieldMatch(board0[c]) IN
    /\ new_field \in DOMAIN board[c].props
    /\ board[c].props[new_field] = board0[c].fields[j].text

\* A field new_name holds the text of the matched field.
NewField(c) ==
    LET j == FirstFieldMatch(board0[c]) IN
    \E h \in 1..Len(board[c].fields) :
        /\ board[c].fields[h].name = new_field
        /\ board[c].fields[h].text = board0[c].fields[j].text

\* C1: after a pass that returned, every footprint whose property mapping had a
\* key matching old_name holds new_name with the value of the matched key; the
\* matched key is gone after a rename, and is kept with its value after a copy.
C1_PropertyRenamedOrCopied ==
    pc = "done" =>
        \A c \in Comps :
            HasPropMatch(board0[c]) =>
                \E k \in PropMatchKeys(board0[c]) :
                    /\ new_field \in DOMAIN board[c].props
                    /\ board[c].props[new_field] = board0[c].props[k]
                    /\ copy_instead =>
                          /\ k \in DOMAIN board[c].props
                          /\ board[c].props[k] = board0[c].props[k]
                    /\ ~copy_instead => k \notin DOMAIN board[c].props

\* C2: processing a footprint with no match in either representation leaves the
\* footprint (hence the board) as it was and adds 0 to both counters.
C2_NoMatchUntouched ==
    [][ ( /\ pc = "loop"
          /\ i <= Len(board)
          /\ ~HasPropMatch(board[i])
          /\ ~HasFieldMatch(board[i]) )
        => ( /\ board' = board
             /\ count_found' = count_found
             /\ count_modified' = count_modified ) ]_vars

C2_Witness ==
    /\ pc = "loop"
    /\ i > 1
    /\ ~HasPropMatch(board0[i - 1])
    /\ ~HasFieldMatch(board0[i - 1])
    /\ DOMAIN board0[i - 1].props # {}
    /\ board0[i - 1].fields # << >>

\* C3: when the pass returns, found_count equals modified_count.
C3_FoundEqualsModified ==
    pc = "done" => count_found = count_modified

\* A match was found and the footprint could not be changed.
C3_Witness ==
    /\ pc = "done"
    /\ count_found >= 1
    /\ board = board0

\* C4: no failure of a host call aborts the pass.
C4_NeverAborts ==
    pc # "raised"

\* C5: the pass runs only after OK with two non-empty names that differ under
\* trim + case-fold; until then, and in every other case, the pass has not been
\* entered and the board is as it was.
C5_RunOnlyWhenValid ==
    /\ pc \in {"loop", "done", "raised"} =>
          /\ dlg = "ok"
          /\ Fold[old_field] # EmptyStr
          /\ Fold[new_field] # EmptyStr
          /\ ~Matches(new_field, old_field)
    /\ pc \in {"dialog", "validate", "cancelled", "warned"} =>
          /\ i = 0
          /\ board = board0
          /\ ~refreshed

\* Names that differ as typed and are equal under case-fold were rejected.
C5_Witness ==
    /\ pc = "warned"
    /\ old_field # EmptyStr
    /\ new_field # EmptyStr
    /\ old_field # new_field
    /\ board = board0

\* C6 as stated: every invocation that ended has shown exactly one message box.
C6_ExactlyOneBox ==
    pc \in {"cancelled", "warned", "done", "raised"} => Len(boxes) = 1

\* C6 amended: never two boxes; a rejected request shows the warning only, a
\* pass that returned shows the summary only, and a cancelled dialog or a pass
\* that raised shows none.
C6_BoxPerOutcome ==
    /\ Len(boxes) <= 1
    /\ pc = "warned" => boxes = << "warning" >>
    /\ pc = "done" => boxes = << "summary" >>
    /\ pc \in {"cancelled", "raised"} => boxes = << >>

C6_Witness ==
    /\ pc = "cancelled"
    /\ boxes = << >>

\* C7 as stated: after a rename, a footprint matched through its field list only
\* has the field renamed in place, or has the new property and the old field.
C7_RenamedOrProperty ==
    (pc = "done" /\ ~copy_instead) =>
        \A c \in FieldOnly :
            \/ RenamedInPlace(c)
            \/ NewProperty(c) /\ board[c].fields = board0[c].fields

\* C7 amended: ... or, when neither SetName nor SetProperty worked, the
\* footprint is exactly as it was.
C7_RenamedOrPropertyOrUntouched ==
    (pc = "done" /\ ~copy_instead) =>
        \A c \in FieldOnly :
            \/ RenamedInPlace(c)
            \/ NewProperty(c) /\ board[c].fields = board0[c].fields
            \/ board[c] = board0[c]

\* The fallback of the rename: the new property next to the old field.
C7_Witness ==
    /\ pc = "done"
    /\ ~copy_instead
    /\ \E c \in FieldOnly : NewProperty(c) /\ board[c].fields = board0[c].fields

\* C8 as stated: after a copy, a footprint matched through its field list only
\* keeps the field and has an entry new_name (property or field) with its text.
C8_CopiedToPropertyOrField ==
    (pc = "done" /\ copy_instead) =>
        \A c \in FieldOnly :
            /\ FieldKept(c)
            /\ NewProperty(c) \/ NewField(c)

\* C8 amended: ... or, when neither SetProperty nor the duplication worked, the
\* footprint is exactly as it was.
C8_CopiedOrUntouched ==
    (pc = "done" /\ copy_instead) =>
        \A c \in FieldOnly :
            /\ FieldKept(c)
            /\ \/ NewProperty(c)
               \/ NewField(c)
               \/ board[c] = board0[c]

\* The fallback of the copy: a duplicate of the field under the new name.
C8_Witness ==
    /\ pc = "done"
    /\ copy_instead
    /\ \E c \in FieldOnly : FieldKept(c) /\ NewField(c) /\ ~NewProperty(c)

\* C9: the returned found_count is the number of footprints with a match in at
\* least one representation.
C9_FoundCountsFootprints ==
    pc = "done" =>
        count_found =
            Cardinality({ c \in Comps : HasPropMatch(board0[c]) \/ HasFieldMatch(board0[c]) })

\* A footprint matching in both representations was counted once.
C9_Witness ==
    /\ pc = "done"
    /\ count_found = 1
    /\ \E c \in Comps : HasPropMatch(board0[c]) /\ HasFieldMatch(board0[c])

\* C10: after the pass, a footprint whose property mapping had a match has the
\* field list it had before.
C10_PropertyMatchKeepsFields ==
    pc = "done" =>
        \A c \in Comps :
            HasPropMatch(board0[c]) => board[c].fields = board0[c].fields

\* A footprint matching in both representations was renamed through its properties.
C10_Witness ==
    /\ pc = "done"
    /\ \E c \in Comps :
          /\ HasPropMatch(board0[c])
          /\ HasFieldMatch(board0[c])
          /\ board[c].props # board0[c].props

====
